---- MODULE Spec2Model ----
(***************************************************************************)
(* Toyni: a didactic STARK prover / verifier.                              *)
(*                                                                         *)
(* The model covers the polynomial algebra (math/polynomial.rs), the FRI   *)
(* fold (math/fri.rs), the execution trace and constraint system (vm/) and *)
(* the STARK prover and verifier (math/stark.rs).                          *)
(*                                                                         *)
(* The scalar field Fr of BLS12-381 is modelled by the prime field of      *)
(* order FieldOrder, which has 2-adicity 5 and so supports the radix-2     *)
(* evaluation domains of size up to 32 that the model uses.                *)
(***************************************************************************)
EXTENDS Integers, Sequences, FiniteSets, TLC

VARIABLES
    trace,        \* ExecutionTrace { height, width, trace }
    constraints,  \* ConstraintSystem { transition_constraints, boundary_constraints }
    prover,       \* locals of StarkProver::generate_proof
    proof,        \* the StarkProof handed to the verifier
    verifier,     \* StarkVerifier { trace_len } and the locals of verify
    poly,         \* operands and result of the polynomial operations
    fri,          \* argument and outcome of a call of fri_fold
    call,         \* the last call of insert_column / get_column and its outcome
    eval,         \* what evaluate, is_satisfied and interpolate_all_constraints returned
    merkle,       \* a MerkleTree, a proof taken from it and its verification
    comp,         \* a CompositionPolynomial and its evaluations
    pc            \* position of the program

vars == <<trace, constraints, prover, proof, verifier, poly, fri, call, eval, merkle, comp, pc>>

(***************************************************************************)
(* Bounds of the model.                                                    *)
(***************************************************************************)
MaxVal == 1           \* trace cells hold 0 .. MaxVal (0 .. 1 in traces of height 8)
MaxTransitions == 1   \* at most this many transition constraints
MaxBoundaries == 1    \* at most this many boundary constraints
MaxCoeffs == 3        \* raw coefficient vectors have length 0 .. MaxCoeffs
MaxCompHeight == 4    \* composition polynomials are built for traces of height 1 .. MaxCompHeight
MaxLeaves == 5        \* Merkle trees have 0 .. MaxLeaves leaves
MaxLeafVal == 1       \* with values 0 .. MaxLeafVal
MaxEvalTransitions == 2  \* constraint systems evaluated on their own have
MaxEvalBoundaries == 1   \* 0 .. MaxEvalTransitions and 0 .. MaxEvalBoundaries constraints
MaxTraceHeight == 2   \* the trace API is exercised on heights 0 .. MaxTraceHeight,
MaxTraceWidth == 2    \* widths 0 .. MaxTraceWidth
MaxTraceVal == 1      \* and cells 0 .. MaxTraceVal
MaxFriLen == 4        \* fri_fold is called on vectors of length 0 .. MaxFriLen
MaxFriVal == 1        \* with entries 0 .. MaxFriVal
MaxFriBeta == 2       \* and a challenge in 0 .. MaxFriBeta
MaxCoeff == 1         \* raw coefficients are 0 .. MaxCoeff and -1

(***************************************************************************)
(* Program constants.                                                      *)
(***************************************************************************)
VERIFIER_QUERIES == 80
FriMinLen == 4


(***************************************************************************)
(* The field Fr.                                                           *)
(***************************************************************************)
FieldOrder == 97
FieldGenerator == 5

Fr == 0 .. (FieldOrder - 1)

FAdd(a, b) == (a + b) % FieldOrder
FSub(a, b) == (a + FieldOrder - b) % FieldOrder
FMul(a, b) == (a * b) % FieldOrder
FNeg(a) == (FieldOrder - a) % FieldOrder

RECURSIVE FPow(_, _)
\* Field::pow by squaring
FPow(a, n) ==
    IF n = 0 THEN 1
    ELSE IF n % 2 = 0
    THEN LET h == FPow(a, n \div 2) IN FMul(h, h)
    ELSE FMul(a, FPow(a, n - 1))

\* the inverses of the units and the powers of the generator, tabulated
InverseTable ==
    [a \in 1 .. (FieldOrder - 1) |->
        CHOOSE b \in 1 .. (FieldOrder - 1) : (a * b) % FieldOrder = 1]
GeneratorPowers == [e \in 0 .. (FieldOrder - 2) |-> FPow(FieldGenerator, e)]

\* Fr::inverse (callers never pass zero: divide returns before, 2 is a unit)
FInverse(a) == IF a = 0 THEN 0 ELSE InverseTable[a]

\* Fr::from(u64)
FrFromU64(v) == v % FieldOrder

RECURSIVE SumTo(_, _)
\* sum in Fr of f[1] .. f[n]
SumTo(f, n) == IF n = 0 THEN 0 ELSE FAdd(SumTo(f, n - 1), f[n])

(***************************************************************************)
(* math/polynomial.rs                                                      *)
(* A polynomial is its coefficient vector, lowest power first; coefficient *)
(* of x^k is at position k + 1.                                            *)
(***************************************************************************)
RECURSIVE PolyNew(_)
\* Polynomial::new: pop trailing zeros
PolyNew(coefficients) ==
    IF Len(coefficients) > 0 /\ coefficients[Len(coefficients)] = 0
    THEN PolyNew(SubSeq(coefficients, 1, Len(coefficients) - 1))
    ELSE coefficients

\* Polynomial::zero
PolyZero == PolyNew(<<0>>)

\* Polynomial::degree
Degree(p) == IF Len(p) = 0 THEN 0 ELSE Len(p) - 1

\* Polynomial::leading_coefficient
LeadingCoefficient(p) == IF Len(p) = 0 THEN 0 ELSE p[Len(p)]

\* Polynomial::is_zero
PolyIsZero(p) == \A k \in 1 .. Len(p) : p[k] = 0

\* Polynomial::add
PolyAddM(p, other) ==
    [k \in 1 .. (IF Len(p) >= Len(other) THEN Len(p) ELSE Len(other)) |->
       FAdd(IF k <= Len(p) THEN p[k] ELSE 0, IF k <= Len(other) THEN other[k] ELSE 0)]
PolyAdd(p, other) ==
    LET max_len == IF Len(p) >= Len(other) THEN Len(p) ELSE Len(other)
        result == [k \in 1 .. max_len |->
                     FAdd(IF k <= Len(p) THEN p[k] ELSE 0,
                          IF k <= Len(other) THEN other[k] ELSE 0)]
    IN  PolyNew(result)

\* Polynomial::multiply
PolyMultiply(p, other) ==
    IF Len(p) = 0 \/ Len(other) = 0 THEN PolyNew(<<>>)
    ELSE LET n == Degree(p) + Degree(other) + 1
             term(k) == [i \in 1 .. Len(p) |->
                           IF k - i + 1 >= 1 /\ k - i + 1 <= Len(other)
                           THEN FMul(p[i], other[k - i + 1]) ELSE 0]
             result == [k \in 1 .. n |-> SumTo(term(k), Len(p))]
         IN  PolyNew(result)

RECURSIVE Horner(_, _, _, _)
Horner(p, x, k, result) ==
    IF k = 0 THEN result
    ELSE Horner(p, x, k - 1, FAdd(FMul(result, x), p[k]))

\* Polynomial::evaluate
Evaluate(p, x) ==
    IF Len(p) = 0 THEN 0
    ELSE Horner(p, x, Len(p) - 1, p[Len(p)])

\* Polynomial::from_dense_poly
FromDensePoly(coeffs) == PolyNew(coeffs)

\* Polynomial::divide, the guard of lines 96-98
DivisorIsZeroM(divisor) == Degree(divisor) = 0
DivisorIsZero(divisor) == Len(divisor) = 0 \/ LeadingCoefficient(divisor) = 0

\* Polynomial::divide, the early return of lines 105-107
DivideSmallerM(p) == [kind |-> "Some", quotient |-> p, remainder |-> PolyZero]
DivideSmaller(p) == [kind |-> "Some", quotient |-> PolyZero, remainder |-> p]

DivideNone == [kind |-> "None", quotient |-> <<>>, remainder |-> <<>>]
DividePanic == [kind |-> "Panic", quotient |-> <<>>, remainder |-> <<>>]

RECURSIVE DivideLoop(_, _, _, _)
\* Polynomial::divide, the long division loop of lines 113-125, for i, i-1, .., 0.
\* st holds the two vectors of the loop; st.kind becomes "Panic" when an
\* index is out of bounds.
DivideLoop(i, st, divisor, divisor_degree) ==
    IF st.kind = "Panic" \/ i < 0 THEN st
    ELSE IF i + divisor_degree + 1 > Len(st.remainder)
    THEN [st EXCEPT !.kind = "Panic"]
    ELSE LET leading_coeff == st.remainder[i + divisor_degree + 1] IN
         IF leading_coeff = 0
         THEN DivideLoop(i - 1, st, divisor, divisor_degree)
         ELSE LET qi == FMul(leading_coeff, FInverse(LeadingCoefficient(divisor)))
                  rem == [k \in 1 .. Len(st.remainder) |->
                            IF k - 1 >= i /\ k - 1 <= i + divisor_degree
                            THEN FSub(st.remainder[k], FMul(qi, divisor[k - i]))
                            ELSE st.remainder[k]]
              IN  DivideLoop(i - 1,
                             [st EXCEPT !.quotient = [st.quotient EXCEPT ![i + 1] = qi],
                                        !.remainder = rem],
                             divisor, divisor_degree)

\* Polynomial::divide. kind is "None", "Panic" or "Some"; quotient and
\* remainder are meaningful for "Some".
Divide(p, divisor) ==
    IF DivisorIsZero(divisor) THEN DivideNone
    ELSE LET divisor_degree == Degree(divisor)
             dividend_degree == Degree(p)
         IN  IF dividend_degree < divisor_degree THEN DivideSmaller(p)
             ELSE LET st == DivideLoop(dividend_degree - divisor_degree,
                                       [kind |-> "Some",
                                        quotient |-> [k \in 1 .. (dividend_degree - divisor_degree + 1) |-> 0],
                                        remainder |-> p],
                                       divisor, divisor_degree)
                  IN  IF st.kind = "Panic" THEN DividePanic
                      ELSE [kind |-> "Some",
                            quotient |-> PolyNew(st.quotient),
                            remainder |-> PolyNew(PolyNew(st.remainder))]

(***************************************************************************)
(* Evaluation domains (ark_poly GeneralEvaluationDomain over Fr), as the   *)
(* sources use them: new(n) gives the radix-2 domain whose size is the     *)
(* next power of two >= n, element(i) is the i-th power of its generator.  *)
(***************************************************************************)
RECURSIVE NextPowerOfTwo(_, _)
NextPowerOfTwo(n, k) == IF k >= n THEN k ELSE NextPowerOfTwo(n, 2 * k)

\* GeneralEvaluationDomain::new(n).size()
DomainSize(n) == NextPowerOfTwo(n, 1)

\* the generator of the domain of the given size
DomainGenerator(size) == GeneratorPowers[((FieldOrder - 1) \div size) % (FieldOrder - 1)]

\* domain.element(i), i counted from 0
DomainElement(size, i) ==
    GeneratorPowers[(((FieldOrder - 1) \div size) * (i % size)) % (FieldOrder - 1)]

\* domain.vanishing_polynomial() as a Polynomial: x^size - 1
VanishingPolynomialM(size) ==
    PolyNew([k \in 1 .. ((size \div 2) + 1) |->
                IF k = 1 THEN FNeg(1) ELSE IF k = (size \div 2) + 1 THEN 1 ELSE 0])
VanishingPolynomial(size) ==
    PolyNew([k \in 1 .. (size + 1) |-> IF k = 1 THEN FNeg(1) ELSE IF k = size + 1 THEN 1 ELSE 0])

\* Evaluations::interpolate / domain.ifft followed by from_dense_poly: the
\* polynomial of degree < Len(evals) whose value at element(i) is evals[i + 1]
Interpolate(evals) ==
    LET size == Len(evals)
        ninv == FInverse(size % FieldOrder)
        term(j) == [i \in 1 .. size |->
                      FMul(evals[i], DomainElement(size, size - (((i - 1) * j) % size)))]
    IN  PolyNew([k \in 1 .. size |-> FMul(ninv, SumTo(term(k - 1), size))])

\* extended_domain.elements().map(|x| p.evaluate(x)).collect()
EvaluateOverDomain(p, size) ==
    [k \in 1 .. size |-> Evaluate(p, DomainElement(size, k - 1))]

(***************************************************************************)
(* math/fri.rs                                                             *)
(***************************************************************************)
\* the loop body of fri_fold for position i (from 1)
FoldAtM(evals, beta, i, half) ==
    LET a == evals[2 * i - 1]
        b == evals[2 * i]
        half_inv == FInverse(2)
    IN  FAdd(FMul(FAdd(a, b), half_inv), FMul(FMul(FSub(a, b), half_inv), beta))
FoldAt(evals, beta, i, half) ==
    LET a == evals[i]
        b == evals[i + half]
        half_inv == FInverse(2)
    IN  FAdd(FMul(FAdd(a, b), half_inv), FMul(FMul(FSub(a, b), half_inv), beta))

\* the condition asserted at the entry of fri_fold
FriLengthOKM(evals) == Len(evals) % 2 = 0 /\ Len(evals) > 0
FriLengthOK(evals) == Len(evals) % 2 = 0

\* fri_fold: the assertion on the length aborts the caller
FriFoldM(evals, beta) ==
    IF Len(evals) % 2 # 0 THEN [kind |-> "Panic", evals |-> <<>>]
    ELSE LET half == Len(evals) \div 2
         IN  [kind |-> "Ok", evals |-> [i \in 1 .. (half - 1) |-> FoldAt(evals, beta, i, half)]]
FriFold(evals, beta) ==
    IF ~ FriLengthOK(evals) THEN [kind |-> "Panic", evals |-> <<>>]
    ELSE LET half == Len(evals) \div 2
         IN  [kind |-> "Ok", evals |-> [i \in 1 .. half |-> FoldAt(evals, beta, i, half)]]

(***************************************************************************)
(* vm/trace.rs                                                             *)
(* A column (one execution step) is a function from variable names to u64  *)
(* values; the trace is the vector of columns in insertion order.          *)
(***************************************************************************)
\* ExecutionTrace::new
TraceNew(height, width) == [height |-> height, width |-> width, trace |-> <<>>]

\* the two assertions of ExecutionTrace::insert_column
InsertAllowedM(t, column) ==
    /\ Cardinality(DOMAIN column) = t.width
    /\ Len(t.trace) <= t.height
InsertAllowed(t, column) ==
    /\ Cardinality(DOMAIN column) = t.width
    /\ Len(t.trace) < t.height

\* the bounds check of the Vec index in ExecutionTrace::get_column
GetColumnInRange(t, index) == index < Len(t.trace)

\* ExecutionTrace::get_column (index from 0); callers index only stored columns
GetColumn(t, index) == t.trace[index + 1]

(***************************************************************************)
(* vm/constraints.rs                                                       *)
(* The closures are those the tests of the repository register.            *)
(***************************************************************************)
TransitionNames == {"increment", "zero_sequence"}
BoundaryNames == {"starts_at_0"}

\* (constraint.evaluate)(current_row, next_row)
EvalTransition(name, current, next) ==
    LET x_n == FrFromU64(current["x"])
        x_next == FrFromU64(next["x"])
    IN  IF name = "increment" THEN FSub(FSub(x_next, x_n), 1)
        ELSE FSub(x_next, x_n)

\* (constraint.evaluate)(row)
EvalBoundary(name, row) == FrFromU64(row["x"])

\* ConstraintSystem::evaluate: per row pair every transition constraint, then
\* every boundary constraint
ConstraintEvaluate(cs, t) ==
    LET nT == Len(cs.transition_constraints)
        nB == Len(cs.boundary_constraints)
        nTrans == (t.height - 1) * nT
    IN  [k \in 1 .. (nTrans + nB) |->
           IF k <= nTrans
           THEN LET i == (k - 1) \div nT
                    c == ((k - 1) % nT) + 1
                IN  EvalTransition(cs.transition_constraints[c].name,
                                   GetColumn(t, i), GetColumn(t, i + 1))
           ELSE LET b == cs.boundary_constraints[k - nTrans]
                IN  EvalBoundary(b.name, GetColumn(t, b.row))]

\* ConstraintSystem::is_satisfied
IsSatisfiedM(cs, t) ==
    /\ \A k \in 1 .. Len(ConstraintEvaluate(cs, t)) : ConstraintEvaluate(cs, t)[k] = 0
    /\ \A c \in 1 .. Len(cs.transition_constraints) :
          EvalTransition(cs.transition_constraints[c].name,
                         GetColumn(t, t.height - 1), GetColumn(t, 0)) = 0
IsSatisfied(cs, t) ==
    LET evaluations == ConstraintEvaluate(cs, t)
    IN  \A k \in 1 .. Len(evaluations) : evaluations[k] = 0

\* the evaluation vector of interpolate_transition_constraint
TransitionEvaluationsM(t, constraint) ==
    [k \in 1 .. t.height |->
        EvalTransition(constraint.name, GetColumn(t, k - 1), GetColumn(t, k % t.height))]
TransitionEvaluations(t, constraint) ==
    [k \in 1 .. t.height |->
        IF k <= t.height - 1
        THEN EvalTransition(constraint.name, GetColumn(t, k - 1), GetColumn(t, k))
        ELSE 0]

\* ConstraintSystem::interpolate_transition_constraint
InterpolateTransitionConstraint(t, constraint) ==
    Interpolate(TransitionEvaluations(t, constraint))

\* the evaluation vector of interpolate_boundary_constraint
BoundaryEvaluationsM(t, constraint) ==
    [k \in 1 .. t.height |->
        IF k = 1 THEN EvalBoundary(constraint.name, GetColumn(t, 0)) ELSE 0]
BoundaryEvaluations(t, constraint) ==
    [k \in 1 .. t.height |->
        IF k - 1 = constraint.row
        THEN EvalBoundary(constraint.name, GetColumn(t, constraint.row))
        ELSE 0]

\* ConstraintSystem::interpolate_boundary_constraint
InterpolateBoundaryConstraint(t, constraint) ==
    Interpolate(BoundaryEvaluations(t, constraint))

\* ConstraintSystem::interpolate_all_constraints
InterpolateAllConstraintsM(cs, t) ==
    LET nT == Len(cs.transition_constraints)
        nB == Len(cs.boundary_constraints)
    IN  [k \in 1 .. (nB + nT) |->
           IF k <= nB
           THEN InterpolateBoundaryConstraint(t, cs.boundary_constraints[k])
           ELSE InterpolateTransitionConstraint(t, cs.transition_constraints[k - nB])]
InterpolateAllConstraints(cs, t) ==
    LET nT == Len(cs.transition_constraints)
        nB == Len(cs.boundary_constraints)
    IN  [k \in 1 .. (nT + nB) |->
           IF k <= nT
           THEN InterpolateTransitionConstraint(t, cs.transition_constraints[k])
           ELSE InterpolateBoundaryConstraint(t, cs.boundary_constraints[k - nT])]

(***************************************************************************)
(* math/stark.rs                                                           *)
(***************************************************************************)
RECURSIVE FoldAdd(_, _, _)
\* constraint_polys.iter().fold(acc, |acc, p| acc.add(p)) from position i on
FoldAdd(polys, i, acc) ==
    IF i > Len(polys) THEN acc
    ELSE FoldAdd(polys, i + 1, PolyAdd(acc, polys[i]))

\* the condition of the prover's FRI loop
FriContinueM(q_evals) == Len(q_evals) > 2 * FriMinLen
FriContinue(q_evals) == Len(q_evals) > FriMinLen

\* the comparison of one spot check of StarkVerifier::verify
SpotCheckM(pr, trace_len, index) ==
    LET x0 == DomainElement(DomainSize(trace_len * 2), index)
        z_poly == VanishingPolynomial(DomainSize(trace_len))
        q_eval == Evaluate(pr.quotient_poly, x0)
        z_eval == Evaluate(z_poly, x0)
        c_eval == Evaluate(pr.combined_constraint, x0)
    IN  /\ FMul(q_eval, z_eval) = c_eval
        /\ Len(constraints.transition_constraints) > 0 => c_eval = 0
SpotCheck(pr, trace_len, index) ==
    LET x0 == DomainElement(DomainSize(trace_len * 2), index)
        z_poly == VanishingPolynomial(DomainSize(trace_len))
        q_eval == Evaluate(pr.quotient_poly, x0)
        z_eval == Evaluate(z_poly, x0)
        c_eval == Evaluate(pr.combined_constraint, x0)
    IN  FMul(q_eval, z_eval) = c_eval

\* the layer the FRI check compares with: fri_layers.get(i + 1), i from 0
LayerIndex(i) == i + 2

RECURSIVE FriCheck(_, _, _)
\* the FRI folding check of StarkVerifier::verify from challenge i (from 0) on:
\* "true", "false", or "panic" when fri_fold aborts
FriCheck(pr, i, current) ==
    IF i >= Len(pr.fri_challenges) THEN "true"
    ELSE LET folded == FriFold(current, pr.fri_challenges[i + 1]) IN
         IF folded.kind = "Panic" THEN "panic"
         ELSE IF ~ (LayerIndex(i) <= Len(pr.fri_layers)
                    /\ pr.fri_layers[LayerIndex(i)] = folded.evals)
         THEN "false"
         ELSE FriCheck(pr, i + 1, pr.fri_layers[LayerIndex(i)])

(***************************************************************************)
(* merkle.rs                                                               *)
(* A 32-byte value is either a raw value <<v>> or the digest <<l, r>> of   *)
(* the concatenation of two 32-byte values: sha_digest is injective on     *)
(* 64-byte inputs, and a leaf may itself be a digest.                      *)
(***************************************************************************)
\* sha_digest(left || right)
ShaDigestM(left, right) == <<left, left>>
ShaDigest(left, right) == <<left, right>>

\* one round of the while loop of build_tree
NextLevelM(current_level) ==
    [p \in 1 .. (Len(current_level) \div 2) |->
        ShaDigest(current_level[2 * p - 1], current_level[2 * p])]
NextLevel(current_level) ==
    [p \in 1 .. ((Len(current_level) + 1) \div 2) |->
        LET left == current_level[2 * p - 1]
            right == IF 2 * p <= Len(current_level)
                     THEN current_level[2 * p]
                     ELSE current_level[2 * p - 1]
        IN  ShaDigest(left, right)]

RECURSIVE BuildLevels(_, _)
\* the while loop of build_tree
BuildLevels(levels, current_level) ==
    IF Len(current_level) > 1
    THEN BuildLevels(Append(levels, NextLevel(current_level)), NextLevel(current_level))
    ELSE levels

\* MerkleTree::new: leaves.clone() and build_tree
MerkleTreeNew(leaves) ==
    [leaves |-> leaves, levels |-> BuildLevels(<<leaves>>, leaves)]

\* the bit get_proof pushes for a node that has a sibling
PositionBitM(current_index) == current_index % 2 = 0
PositionBit(current_index) == current_index % 2 = 1

RECURSIVE ProofLoop(_, _, _, _)
\* the for loop of get_proof over levels[..levels.len() - 1], level j from 1
ProofLoop(tree, j, current_index, acc) ==
    IF j > Len(tree.levels) - 1 THEN acc
    ELSE LET level == tree.levels[j]
             sibling_index == IF current_index % 2 = 0
                              THEN current_index + 1
                              ELSE current_index - 1
             step == IF sibling_index >= Len(level)
                     THEN [path |-> Append(acc.path, level[current_index + 1]),
                           position |-> Append(acc.position, TRUE)]
                     ELSE [path |-> Append(acc.path, level[sibling_index + 1]),
                           position |-> Append(acc.position, PositionBit(current_index))]
         IN  ProofLoop(tree, j + 1, current_index \div 2,
                       [kind |-> "Some", path |-> step.path, position |-> step.position])

\* the guard of get_proof
IndexOutOfRangeM(tree, index) == index >= Len(tree.leaves) - 1
IndexOutOfRange(tree, index) == index >= Len(tree.leaves)

\* MerkleTree::get_proof
GetProof(tree, index) ==
    IF IndexOutOfRange(tree, index)
    THEN [kind |-> "None", path |-> <<>>, position |-> <<>>]
    ELSE ProofLoop(tree, 1, index, [kind |-> "Some", path |-> <<>>, position |-> <<>>])

\* MerkleTree::root
MerkleRootM(tree) ==
    IF Len(tree.levels) <= 1
    THEN [kind |-> "None", hash |-> <<>>]
    ELSE [kind |-> "Some", hash |-> tree.levels[Len(tree.levels)][1]]
MerkleRoot(tree) ==
    IF Len(tree.levels) = 0 \/ Len(tree.levels[Len(tree.levels)]) = 0
    THEN [kind |-> "None", hash |-> <<>>]
    ELSE [kind |-> "Some", hash |-> tree.levels[Len(tree.levels)][1]]

\* one round of the loop of verify_merkle_proof
VerifyRound(current_hash, sibling, is_right) ==
    IF is_right THEN ShaDigest(sibling, current_hash)
    ELSE ShaDigest(current_hash, sibling)

RECURSIVE VerifyLoop(_, _, _)
\* the loop of verify_merkle_proof over path.iter().zip(position.iter())
VerifyLoop(current_hash, proof_, k) ==
    IF k > Len(proof_.path) \/ k > Len(proof_.position) THEN current_hash
    ELSE VerifyLoop(VerifyRound(current_hash, proof_.path[k], proof_.position[k]),
                    proof_, k + 1)

\* verify_merkle_proof
VerifyMerkleProof(leaf, proof_, root) == VerifyLoop(leaf, proof_, 1) = root

(***************************************************************************)
(* math/composition.rs                                                     *)
(***************************************************************************)
\* domain.fft(coeffs): the coefficient vector is resized to the domain size
\* and evaluated at every element of the domain
DomainFft(coeffs, size) ==
    LET resized == IF Len(coeffs) > size THEN SubSeq(coeffs, 1, size) ELSE coeffs
    IN  [k \in 1 .. size |-> Evaluate(resized, DomainElement(size, k - 1))]

\* Evaluations::from_vec_and_domain(evals, domain).interpolate(): the vector
\* is zero-padded to the domain size
InterpolateOn(evals, size) ==
    Interpolate([k \in 1 .. size |-> IF k <= Len(evals) THEN evals[k] ELSE 0])

\* whether an index of constraint_evals is out of bounds in new
CompositionPanics(t, cs, domain_size) ==
    \/ Len(cs.transition_constraints) > 0 /\ t.height > domain_size
    \/ \E b \in 1 .. Len(cs.boundary_constraints) :
          cs.boundary_constraints[b].row >= domain_size

\* constraint_evals after the two loops of new: on row i the sum of every
\* transition constraint on rows i and (i + 1) % height, plus the boundary
\* constraints bound to row i
ConstraintEvals(t, cs, domain_size) ==
    LET original_size == t.height
        transition(i) ==
            [c \in 1 .. Len(cs.transition_constraints) |->
                EvalTransition(cs.transition_constraints[c].name,
                               GetColumn(t, i), GetColumn(t, (i + 1) % original_size))]
        boundary(i) ==
            [b \in 1 .. Len(cs.boundary_constraints) |->
                IF cs.boundary_constraints[b].row = i
                THEN EvalBoundary(cs.boundary_constraints[b].name, GetColumn(t, i))
                ELSE 0]
    IN  [k \in 1 .. domain_size |->
            IF k <= original_size
            THEN FAdd(SumTo(transition(k - 1), Len(cs.transition_constraints)),
                      SumTo(boundary(k - 1), Len(cs.boundary_constraints)))
            ELSE 0]

\* constraint_evals after the extension to a larger domain
ExtendedConstraintEvals(t, cs, domain_size) ==
    LET original_size == t.height
        constraint_evals == ConstraintEvals(t, cs, domain_size)
    IN  IF domain_size > original_size
        THEN DomainFft(InterpolateOn(SubSeq(constraint_evals, 1, original_size),
                                     DomainSize(original_size)),
                       domain_size)
        ELSE constraint_evals

\* one factor of z_h_evals[i]: x - omega^j
ZhFactorM(size, i, j) ==
    IF j = i THEN 1 ELSE FSub(DomainElement(size, i), FPow(DomainElement(size, 1), j))
ZhFactor(size, i, j) ==
    FSub(DomainElement(size, i), FPow(DomainElement(size, 1), j))

RECURSIVE ZhProduct(_, _, _, _)
\* the inner loop of z_h_evals: the product over j in 0 .. size - 1
ZhProduct(size, i, j, acc) ==
    IF j >= size THEN acc
    ELSE ZhProduct(size, i, j + 1, FMul(acc, ZhFactor(size, i, j)))

\* z_h_evals
ZhEvals(size) == [k \in 1 .. size |-> ZhProduct(size, k - 1, 0, 1)]

\* &z_h * &constraint_poly on DensePolynomial
DenseMultiply(p, q) == PolyMultiply(p, q)

\* CompositionPolynomial::new, when it returns
CompositionNew(t, cs, domain_size) ==
    LET constraint_poly == Interpolate(ExtendedConstraintEvals(t, cs, domain_size))
        z_h == Interpolate(ZhEvals(domain_size))
    IN  DenseMultiply(z_h, constraint_poly)

\* CompositionPolynomial::evaluations
CompositionEvaluations(polynomial, domain_size) == DomainFft(polynomial, domain_size)

(***************************************************************************)
(* State.                                                                  *)
(***************************************************************************)
RawCoefficients ==
    UNION {[1 .. n -> (0 .. MaxCoeff) \cup {FNeg(1)}] : n \in 0 .. MaxCoeffs}

\* trace heights (powers of two) of the pipeline that runs the verifier, and
\* of the runs of the prover alone
Heights == {2, 4}
ProverHeights == {2, 4, 8}
\* the columns offered to a trace of the given height
Columns(height) == [{"x"} -> IF height <= 4 THEN 0 .. MaxVal ELSE 0 .. 1]
\* the rows boundary constraints are bound to: the first and the last
BoundaryRows(height) == {0, height - 1}
\* the FRI challenges the transcript can yield
Betas == {0, 1}

NoResult == [kind |-> "NotRun", quotient |-> <<>>, remainder |-> <<>>]
NoPoly == [raw1 |-> <<>>, raw2 |-> <<>>, p |-> <<>>, divisor |-> <<>>, out |-> NoResult,
           result |-> <<>>]
NoTrace == TraceNew(0, 0)
NoConstraints == [transition_constraints |-> <<>>, boundary_constraints |-> <<>>]
NoProver == [combined_constraint |-> <<>>, c_poly |-> <<>>, quotient_poly |-> <<>>,
             rem |-> <<>>, q_evals |-> <<>>, fri_layers |-> <<>>, fri_challenges |-> <<>>]
NoProof == [kind |-> "NoProof", quotient_eval_domain |-> <<>>, fri_layers |-> <<>>,
            fri_challenges |-> <<>>, combined_constraint |-> <<>>, quotient_poly |-> <<>>]
NoFri == [evals |-> <<>>, beta |-> 0, out |-> [kind |-> "NotRun", evals |-> <<>>]]
NoCall == [op |-> "none", column |-> <<>>, index |-> 0, outcome |-> "none", value |-> <<>>]
NoEval == [op |-> "none", evaluations |-> <<>>, satisfied |-> FALSE, polys |-> <<>>]
NoMerkle == [leaves |-> <<>>, levels |-> <<>>, op |-> "none", index |-> 0,
             proof |-> [kind |-> "NotRun", path |-> <<>>, position |-> <<>>],
             root |-> [kind |-> "NotRun", hash |-> <<>>], leaf |-> <<>>, verified |-> FALSE]
NoComp == [domain_size |-> 0, polynomial |-> <<>>, evaluations |-> <<>>]
NoVerifier == [trace_len |-> 0, i |-> 0, sampled_ok |-> TRUE, result |-> "unset"]

(***************************************************************************)
(* Polynomial operations on their own: two polynomials are built by        *)
(* Polynomial::new from raw coefficient vectors and one is divided by the  *)
(* other, or they are added or multiplied; Polynomial::zero and            *)
(* Polynomial::from_dense_poly build a polynomial of their own.            *)
(***************************************************************************)
InitPoly ==
    /\ pc = "poly_raw"
    /\ \E c1 \in RawCoefficients, c2 \in RawCoefficients :
          poly = [raw1 |-> c1, raw2 |-> c2, p |-> <<>>, divisor |-> <<>>, out |-> NoResult,
                  result |-> <<>>]
    /\ trace = NoTrace
    /\ constraints = NoConstraints
    /\ prover = NoProver
    /\ proof = NoProof
    /\ verifier = NoVerifier
    /\ fri = NoFri
    /\ call = NoCall
    /\ eval = NoEval
    /\ merkle = NoMerkle
    /\ comp = NoComp

\* Polynomial::new on both raw vectors
NewPolynomials ==
    /\ pc = "poly_raw"
    /\ poly' = [poly EXCEPT !.p = PolyNew(poly.raw1), !.divisor = PolyNew(poly.raw2)]
    /\ pc' = "poly_ready"
    /\ UNCHANGED <<trace, constraints, prover, proof, verifier, fri, call, eval, merkle, comp>>

\* p.divide(&divisor)
PolyDivide ==
    /\ pc = "poly_ready"
    /\ poly' = [poly EXCEPT !.out = Divide(poly.p, poly.divisor)]
    /\ pc' = "poly_divided"
    /\ UNCHANGED <<trace, constraints, prover, proof, verifier, fri, call, eval, merkle, comp>>

\* p.add(&divisor)
PolyAddStep ==
    /\ pc = "poly_ready"
    /\ poly' = [poly EXCEPT !.result = PolyAdd(poly.p, poly.divisor)]
    /\ pc' = "poly_added"
    /\ UNCHANGED <<trace, constraints, prover, proof, verifier, fri, call, eval, merkle, comp>>

\* p.multiply(&divisor)
PolyMultiplyStep ==
    /\ pc = "poly_ready"
    /\ poly' = [poly EXCEPT !.result = PolyMultiply(poly.p, poly.divisor)]
    /\ pc' = "poly_multiplied"
    /\ UNCHANGED <<trace, constraints, prover, proof, verifier, fri, call, eval, merkle, comp>>

\* Polynomial::zero()
PolyZeroStep ==
    /\ pc = "poly_ready"
    /\ poly' = [poly EXCEPT !.result = PolyZero]
    /\ pc' = "poly_zero"
    /\ UNCHANGED <<trace, constraints, prover, proof, verifier, fri, call, eval, merkle, comp>>

\* Polynomial::from_dense_poly on a dense polynomial with the coefficients raw1
PolyFromDenseStep ==
    /\ pc = "poly_ready"
    /\ poly' = [poly EXCEPT !.result = FromDensePoly(poly.raw1)]
    /\ pc' = "poly_from_dense"
    /\ UNCHANGED <<trace, constraints, prover, proof, verifier, fri, call, eval, merkle, comp>>

NextPoly ==
    \/ NewPolynomials
    \/ PolyDivide
    \/ PolyAddStep
    \/ PolyMultiplyStep
    \/ PolyZeroStep
    \/ PolyFromDenseStep

SpecPoly == InitPoly /\ [][NextPoly]_vars

(***************************************************************************)
(* The pipeline of the tests of math/stark.rs: a trace and a constraint    *)
(* system are built, StarkProver::generate_proof runs, and                 *)
(* StarkVerifier::verify checks the proof it returned.                     *)
(***************************************************************************)
\* ExecutionTrace::new(h, 1) and ConstraintSystem::new()
InitWith(heights) ==
    /\ pc = "build"
    /\ \E h \in heights : trace = TraceNew(h, 1)
    /\ constraints = NoConstraints
    /\ prover = NoProver
    /\ proof = NoProof
    /\ verifier = NoVerifier
    /\ poly = NoPoly
    /\ fri = NoFri
    /\ call = NoCall
    /\ eval = NoEval
    /\ merkle = NoMerkle
    /\ comp = NoComp

Init == InitWith(Heights)

\* ExecutionTrace::insert_column
InsertColumn ==
    /\ pc = "build"
    /\ \E column \in Columns(trace.height) :
          IF InsertAllowed(trace, column)
          THEN /\ trace' = [trace EXCEPT !.trace = Append(@, column)]
               /\ pc' = pc
          ELSE /\ trace' = trace
               /\ pc' = "panic"
    /\ UNCHANGED <<constraints, prover, proof, verifier, poly, fri, call, eval, merkle, comp>>

\* ConstraintSystem::add_transition_constraint
AddTransitionConstraint ==
    /\ pc = "build"
    /\ Len(constraints.transition_constraints) < MaxTransitions
    /\ \E name \in TransitionNames :
          constraints' = [constraints EXCEPT
              !.transition_constraints = Append(@, [name |-> name])]
    /\ UNCHANGED <<trace, prover, proof, verifier, poly, fri, call, eval, merkle, comp, pc>>

\* ConstraintSystem::add_boundary_constraint, for a row of the trace
AddBoundaryConstraint ==
    /\ pc = "build"
    /\ Len(constraints.boundary_constraints) < MaxBoundaries
    /\ \E name \in BoundaryNames, row \in BoundaryRows(trace.height) :
          constraints' = [constraints EXCEPT
              !.boundary_constraints = Append(@, [name |-> name, row |-> row])]
    /\ UNCHANGED <<trace, prover, proof, verifier, poly, fri, call, eval, merkle, comp, pc>>

\* StarkProver::generate_proof up to the first FRI layer (lines 115-169),
\* called on a fully populated trace
ProverSetup ==
    /\ pc = "build"
    /\ Len(trace.trace) = trace.height
    /\ LET trace_len == trace.height
           domain == DomainSize(trace_len)
           extended_domain == DomainSize(trace_len * 2)
           constraint_polys == InterpolateAllConstraints(constraints, trace)
           combined_constraint == FoldAdd(constraint_polys, 1, PolyZero)
           c_evals == EvaluateOverDomain(combined_constraint, extended_domain)
           c_poly == Interpolate(c_evals)
           z_poly == VanishingPolynomial(domain)
           division == Divide(c_poly, z_poly)
           q_evals == EvaluateOverDomain(division.quotient, extended_domain)
       IN  IF division.kind = "Some"
           THEN /\ prover' = [combined_constraint |-> combined_constraint,
                              c_poly |-> c_poly,
                              quotient_poly |-> division.quotient,
                              rem |-> division.remainder,
                              q_evals |-> q_evals,
                              fri_layers |-> <<q_evals>>,
                              fri_challenges |-> <<>>]
                /\ pc' = "fri"
           ELSE /\ prover' = prover
                /\ pc' = "panic"
    /\ UNCHANGED <<trace, constraints, proof, verifier, poly, fri, call, eval, merkle, comp>>

\* one iteration of the FRI loop of generate_proof (lines 171-177)
ProverFriStep ==
    /\ pc = "fri"
    /\ FriContinue(prover.q_evals)
    /\ \E beta \in Betas :
          LET folded == FriFold(prover.q_evals, beta) IN
          IF folded.kind = "Ok"
          THEN /\ prover' = [prover EXCEPT
                     !.fri_challenges = Append(@, beta),
                     !.q_evals = folded.evals,
                     !.fri_layers = Append(@, folded.evals)]
               /\ pc' = pc
          ELSE /\ prover' = prover
               /\ pc' = "panic"
    /\ UNCHANGED <<trace, constraints, proof, verifier, poly, fri, call, eval, merkle, comp>>

\* the exit of the FRI loop and the proof returned (lines 179-187)
ProverEmit ==
    /\ pc = "fri"
    /\ ~ FriContinue(prover.q_evals)
    /\ proof' = [kind |-> "Proof",
                 quotient_eval_domain |-> prover.fri_layers[1],
                 fri_layers |-> prover.fri_layers,
                 fri_challenges |-> prover.fri_challenges,
                 combined_constraint |-> prover.combined_constraint,
                 quotient_poly |-> prover.quotient_poly]
    /\ pc' = "proved"
    /\ UNCHANGED <<trace, constraints, prover, verifier, poly, fri, call, eval, merkle, comp>>

\* StarkVerifier::new(&constraints, trace.height) and the entry of verify
VerifierNew ==
    /\ pc = "proved"
    /\ verifier' = [trace_len |-> trace.height, i |-> 0, sampled_ok |-> TRUE,
                    result |-> "unset"]
    /\ pc' = "spot"
    /\ UNCHANGED <<trace, constraints, prover, proof, poly, fri, call, eval, merkle, comp>>

\* one spot check of verify (lines 267-284). sampled_ok is a history
\* variable: whether Q(x0) * (x0^H - 1) = C(x0) held at every point sampled
\* so far.
VerifySpotCheck ==
    /\ pc = "spot"
    /\ verifier.i < VERIFIER_QUERIES
    /\ \E index \in 0 .. (DomainSize(verifier.trace_len * 2) - 1) :
          LET x0 == DomainElement(DomainSize(verifier.trace_len * 2), index)
              identity == FMul(Evaluate(proof.quotient_poly, x0),
                               FSub(FPow(x0, verifier.trace_len), 1))
                          = Evaluate(proof.combined_constraint, x0)
          IN  IF SpotCheck(proof, verifier.trace_len, index)
              THEN /\ verifier' = [verifier EXCEPT !.i = @ + 1,
                                                   !.sampled_ok = @ /\ identity]
                   /\ pc' = pc
              ELSE /\ verifier' = [verifier EXCEPT !.result = "false",
                                                   !.sampled_ok = @ /\ identity]
                   /\ pc' = "verified"
    /\ UNCHANGED <<trace, constraints, prover, proof, poly, fri, call, eval, merkle, comp>>

\* the FRI folding check and the result of verify (lines 286-296)
VerifyFri ==
    /\ pc = "spot"
    /\ verifier.i = VERIFIER_QUERIES
    /\ verifier' = [verifier EXCEPT
           !.result = FriCheck(proof, 0, proof.quotient_eval_domain)]
    /\ pc' = "verified"
    /\ UNCHANGED <<trace, constraints, prover, proof, poly, fri, call, eval, merkle, comp>>

Next ==
    \/ InsertColumn
    \/ AddTransitionConstraint
    \/ AddBoundaryConstraint
    \/ ProverSetup
    \/ ProverFriStep
    \/ ProverEmit
    \/ VerifierNew
    \/ VerifySpotCheck
    \/ VerifyFri

Spec == Init /\ [][Next]_vars

(***************************************************************************)
(* The prover alone, on the taller traces too. generate_proof is a         *)
(* synchronous call: once entered, its loop runs until it exits, which is  *)
(* the fairness of FairSpecProver.                                         *)
(***************************************************************************)
InitProver == InitWith(ProverHeights)

NextProver ==
    \/ InsertColumn
    \/ AddTransitionConstraint
    \/ AddBoundaryConstraint
    \/ ProverSetup
    \/ ProverFriStep
    \/ ProverEmit

SpecProver == InitProver /\ [][NextProver]_vars

FairSpecProver ==
    SpecProver /\ WF_vars(ProverFriStep) /\ WF_vars(ProverEmit)

(***************************************************************************)
(* The verifier on its own: StarkVerifier::verify on any StarkProof value, *)
(* well formed or not (the fields of StarkProof are public).               *)
(***************************************************************************)
\* evaluation vectors of length 0 .. 2
EvalVectors == UNION {[1 .. n -> 0 .. 1] : n \in 0 .. 2}
\* the vectors offered as folded layers
FoldedVectors == UNION {[1 .. n -> 0 .. 1] : n \in 0 .. 1}
\* sequences over S of length 0 .. n
SeqsUpTo(S, n) == UNION {[1 .. k -> S] : k \in 0 .. n}
\* (quotient_poly, combined_constraint): Q = 0 and C = 0; Q = 0 and C = 1 + x,
\* which agree with Q * Z at the point -1 only; Q = 1 and C = x^2 - 1, which
\* is Q * Z for trace length 2
PolyPairs == {<<PolyNew(<<>>), PolyNew(<<>>)>>,
              <<PolyNew(<<>>), PolyNew(<<1, 1>>)>>,
              <<PolyNew(<<1>>), PolyNew(<<FNeg(1), 0, 1>>)>>}

InitVerify ==
    /\ pc = "spot"
    /\ \E h \in Heights, q \in EvalVectors :
       \E first \in {<<>>, <<q>>, <<(<<1>>)>>},
          rest \in SeqsUpTo(FoldedVectors, 2),
          challenges \in SeqsUpTo(Betas, 2),
          polys \in PolyPairs :
          /\ first = <<>> => rest = <<>>
          /\ proof = [kind |-> "Proof",
                      quotient_eval_domain |-> q,
                      fri_layers |-> first \o rest,
                      fri_challenges |-> challenges,
                      combined_constraint |-> polys[2],
                      quotient_poly |-> polys[1]]
          /\ verifier = [trace_len |-> h, i |-> 0, sampled_ok |-> TRUE,
                         result |-> "unset"]
    /\ trace = NoTrace
    /\ constraints = NoConstraints
    /\ prover = NoProver
    /\ poly = NoPoly
    /\ fri = NoFri
    /\ call = NoCall
    /\ eval = NoEval
    /\ merkle = NoMerkle
    /\ comp = NoComp

NextVerify == VerifySpotCheck \/ VerifyFri

SpecVerify == InitVerify /\ [][NextVerify]_vars

(***************************************************************************)
(* The verifier built by StarkVerifier::new(constraints, trace_len) for    *)
(* several constraint systems, then verify on any StarkProof value.        *)
(***************************************************************************)
\* the constraint systems handed to StarkVerifier::new: none, x_next = x_n + 1,
\* and x_next = x_n with x = 0 on row 0
VerifierConstraintSystems ==
    {NoConstraints,
     [transition_constraints |-> <<[name |-> "increment"]>>,
      boundary_constraints |-> <<>>],
     [transition_constraints |-> <<[name |-> "zero_sequence"]>>,
      boundary_constraints |-> <<[name |-> "starts_at_0", row |-> 0]>>]}

InitVerifyCS ==
    /\ pc = "spot"
    /\ constraints \in VerifierConstraintSystems
    /\ \E h \in Heights, q \in EvalVectors :
       \E layers \in {<<>>, <<q>>, <<(<<1>>)>>, <<q, (<<0>>)>>},
          challenges \in SeqsUpTo(Betas, 1),
          polys \in PolyPairs :
          /\ proof = [kind |-> "Proof",
                      quotient_eval_domain |-> q,
                      fri_layers |-> layers,
                      fri_challenges |-> challenges,
                      combined_constraint |-> polys[2],
                      quotient_poly |-> polys[1]]
          /\ verifier = [trace_len |-> h, i |-> 0, sampled_ok |-> TRUE,
                         result |-> "unset"]
    /\ trace = NoTrace
    /\ prover = NoProver
    /\ poly = NoPoly
    /\ fri = NoFri
    /\ call = NoCall
    /\ eval = NoEval
    /\ merkle = NoMerkle
    /\ comp = NoComp

SpecVerifyCS == InitVerifyCS /\ [][NextVerify]_vars

(***************************************************************************)
(* fri_fold on its own: one call on an evaluation vector and a challenge.  *)
(* The vectors are all short vectors of small entries, and the evaluations *)
(* of the polynomials x and x^3 + x over the domains of size 2 and 4.      *)
(***************************************************************************)
FriVectors ==
    UNION {[1 .. n -> 0 .. MaxFriVal] : n \in 0 .. MaxFriLen}
       \cup {EvaluateOverDomain(<<0, 1>>, 2), EvaluateOverDomain(<<0, 1>>, 4),
             EvaluateOverDomain(<<0, 1, 0, 1>>, 4)}

InitFri ==
    /\ pc = "fri_input"
    /\ \E evals \in FriVectors, beta \in 0 .. MaxFriBeta :
          fri = [evals |-> evals, beta |-> beta, out |-> NoFri.out]
    /\ trace = NoTrace
    /\ constraints = NoConstraints
    /\ prover = NoProver
    /\ proof = NoProof
    /\ verifier = NoVerifier
    /\ poly = NoPoly
    /\ call = NoCall
    /\ eval = NoEval
    /\ merkle = NoMerkle
    /\ comp = NoComp

\* fri_fold(&evals, beta)
FriFoldStep ==
    /\ pc = "fri_input"
    /\ fri' = [fri EXCEPT !.out = FriFold(fri.evals, fri.beta)]
    /\ pc' = "fri_folded"
    /\ UNCHANGED <<trace, constraints, prover, proof, verifier, poly, call, eval, merkle, comp>>

NextFri == FriFoldStep

SpecFri == InitFri /\ [][NextFri]_vars

(***************************************************************************)
(* The trace API on its own: ExecutionTrace::new followed by any sequence  *)
(* of insert_column and get_column calls, on columns over the variables x  *)
(* and y.  A call that panics leaves the trace to a caller that catches    *)
(* the unwinding, so later calls are possible.                             *)
(***************************************************************************)
TraceVariables == {"x", "y"}
TraceColumns ==
    UNION {[keys -> 0 .. MaxTraceVal] : keys \in SUBSET TraceVariables}

InitTrace ==
    /\ pc = "trace"
    /\ \E h \in 0 .. MaxTraceHeight, w \in 0 .. MaxTraceWidth : trace = TraceNew(h, w)
    /\ constraints = NoConstraints
    /\ prover = NoProver
    /\ proof = NoProof
    /\ verifier = NoVerifier
    /\ poly = NoPoly
    /\ fri = NoFri
    /\ call = NoCall
    /\ eval = NoEval
    /\ merkle = NoMerkle
    /\ comp = NoComp

\* trace.insert_column(column)
TraceInsert ==
    /\ pc = "trace"
    /\ \E column \in TraceColumns :
          IF InsertAllowed(trace, column)
          THEN /\ trace' = [trace EXCEPT !.trace = Append(@, column)]
               /\ call' = [NoCall EXCEPT !.op = "insert", !.column = column, !.outcome = "ok"]
          ELSE /\ trace' = trace
               /\ call' = [NoCall EXCEPT !.op = "insert", !.column = column, !.outcome = "panic"]
    /\ UNCHANGED <<constraints, prover, proof, verifier, poly, fri, eval, merkle, comp, pc>>

\* trace.get_column(index)
TraceGet ==
    /\ pc = "trace"
    /\ \E index \in 0 .. MaxTraceHeight :
          IF GetColumnInRange(trace, index)
          THEN call' = [NoCall EXCEPT !.op = "get", !.index = index, !.outcome = "ok",
                                     !.value = GetColumn(trace, index)]
          ELSE call' = [NoCall EXCEPT !.op = "get", !.index = index, !.outcome = "panic"]
    /\ UNCHANGED <<trace, constraints, prover, proof, verifier, poly, fri, eval, merkle, comp, pc>>

NextTrace == TraceInsert \/ TraceGet

SpecTrace == InitTrace /\ [][NextTrace]_vars

(***************************************************************************)
(* The constraint system on its own: evaluate, is_satisfied and            *)
(* interpolate_all_constraints on a full trace of one column x.            *)
(***************************************************************************)
EvalHeights == {1, 2, 3, 4}
PowersOfTwo == {1, 2, 4}

\* the full traces of the given height
FullTraces(height) ==
    {[height |-> height, width |-> 1, trace |-> rows] :
        rows \in [1 .. height -> Columns(height)]}

\* the constraint systems a sequence of add_transition_constraint and
\* add_boundary_constraint calls builds for a trace of the given height
ConstraintSystems(height) ==
    {[transition_constraints |-> ts, boundary_constraints |-> bs] :
        ts \in SeqsUpTo([name : TransitionNames], MaxEvalTransitions),
        bs \in SeqsUpTo([name : BoundaryNames, row : BoundaryRows(height)], MaxEvalBoundaries)}

InitEval ==
    /\ pc = "cs_ready"
    /\ \E h \in EvalHeights :
          /\ trace \in FullTraces(h)
          /\ constraints \in ConstraintSystems(h)
    /\ prover = NoProver
    /\ proof = NoProof
    /\ verifier = NoVerifier
    /\ poly = NoPoly
    /\ fri = NoFri
    /\ call = NoCall
    /\ eval = NoEval
    /\ merkle = NoMerkle
    /\ comp = NoComp

\* constraints.evaluate(&trace)
EvaluateStep ==
    /\ pc = "cs_ready"
    /\ eval' = [eval EXCEPT !.op = "evaluate",
                            !.evaluations = ConstraintEvaluate(constraints, trace)]
    /\ pc' = "cs_done"
    /\ UNCHANGED <<trace, constraints, prover, proof, verifier, poly, fri, call, merkle, comp>>

\* constraints.is_satisfied(&trace)
IsSatisfiedStep ==
    /\ pc = "cs_ready"
    /\ eval' = [eval EXCEPT !.op = "is_satisfied",
                            !.satisfied = IsSatisfied(constraints, trace)]
    /\ pc' = "cs_done"
    /\ UNCHANGED <<trace, constraints, prover, proof, verifier, poly, fri, call, merkle, comp>>

\* constraints.interpolate_all_constraints(&trace), trace height a power of two
InterpolateAllStep ==
    /\ pc = "cs_ready"
    /\ trace.height \in PowersOfTwo
    /\ eval' = [eval EXCEPT !.op = "interpolate_all",
                            !.polys = InterpolateAllConstraints(constraints, trace)]
    /\ pc' = "cs_done"
    /\ UNCHANGED <<trace, constraints, prover, proof, verifier, poly, fri, call, merkle, comp>>

NextEval == EvaluateStep \/ IsSatisfiedStep \/ InterpolateAllStep

SpecEval == InitEval /\ [][NextEval]_vars

(***************************************************************************)
(* The Merkle tree on its own: MerkleTree::new on a list of leaves, then   *)
(* root(), or get_proof(index) followed by verify_merkle_proof on a        *)
(* candidate leaf, which is any leaf value or any node of the tree.        *)
(***************************************************************************)
\* the leaves: raw values, and one digest
LeafValues == {<<v>> : v \in 0 .. MaxLeafVal} \cup {ShaDigest(<<0>>, <<0>>)}
LeafLists == UNION {[1 .. n -> LeafValues] : n \in 0 .. MaxLeaves}

\* the values of the nodes of the tree
TreeNodes(tree) ==
    UNION {{tree.levels[j][p] : p \in 1 .. Len(tree.levels[j])} : j \in 1 .. Len(tree.levels)}

InitMerkle ==
    /\ pc = "merkle_input"
    /\ \E leaves \in LeafLists : merkle = [NoMerkle EXCEPT !.leaves = leaves]
    /\ trace = NoTrace
    /\ constraints = NoConstraints
    /\ prover = NoProver
    /\ proof = NoProof
    /\ verifier = NoVerifier
    /\ poly = NoPoly
    /\ fri = NoFri
    /\ call = NoCall
    /\ eval = NoEval
    /\ comp = NoComp

\* MerkleTree::new(leaves)
MerkleNewStep ==
    /\ pc = "merkle_input"
    /\ merkle' = [merkle EXCEPT !.levels = MerkleTreeNew(merkle.leaves).levels, !.op = "new"]
    /\ pc' = "merkle_built"
    /\ UNCHANGED <<trace, constraints, prover, proof, verifier, poly, fri, call, eval, comp>>

\* tree.root()
MerkleRootStep ==
    /\ pc = "merkle_built"
    /\ merkle' = [merkle EXCEPT !.root = MerkleRoot(merkle), !.op = "root"]
    /\ pc' = "merkle_done"
    /\ UNCHANGED <<trace, constraints, prover, proof, verifier, poly, fri, call, eval, comp>>

\* tree.get_proof(index)
MerkleGetProofStep ==
    /\ pc = "merkle_built"
    /\ \E index \in 0 .. MaxLeaves :
          merkle' = [merkle EXCEPT !.index = index, !.proof = GetProof(merkle, index),
                                   !.op = "get_proof"]
    /\ pc' = "merkle_proved"
    /\ UNCHANGED <<trace, constraints, prover, proof, verifier, poly, fri, call, eval, comp>>

\* verify_merkle_proof(&leaf, &proof, &tree.root().unwrap())
MerkleVerifyStep ==
    /\ pc = "merkle_proved"
    /\ merkle.proof.kind = "Some"
    /\ MerkleRoot(merkle).kind = "Some"
    /\ \E leaf \in LeafValues \cup TreeNodes(merkle) :
          merkle' = [merkle EXCEPT
                        !.leaf = leaf,
                        !.root = MerkleRoot(merkle),
                        !.verified = VerifyMerkleProof(leaf, merkle.proof, MerkleRoot(merkle).hash),
                        !.op = "verify"]
    /\ pc' = "merkle_verified"
    /\ UNCHANGED <<trace, constraints, prover, proof, verifier, poly, fri, call, eval, comp>>

NextMerkle ==
    \/ MerkleNewStep
    \/ MerkleRootStep
    \/ MerkleGetProofStep
    \/ MerkleVerifyStep

SpecMerkle == InitMerkle /\ [][NextMerkle]_vars

(***************************************************************************)
(* The composition polynomial on its own: CompositionPolynomial::new on a  *)
(* full trace of one column x, a constraint system and an evaluation       *)
(* domain, then evaluations().                                             *)
(***************************************************************************)
\* the sizes of the GeneralEvaluationDomain handed to new
CompDomainSizes == {1, 2, 4, 8}

InitComp ==
    /\ pc = "comp_ready"
    /\ \E h \in 1 .. MaxCompHeight :
          /\ trace \in FullTraces(h)
          /\ constraints \in ConstraintSystems(h)
    /\ prover = NoProver
    /\ proof = NoProof
    /\ verifier = NoVerifier
    /\ poly = NoPoly
    /\ fri = NoFri
    /\ call = NoCall
    /\ eval = NoEval
    /\ merkle = NoMerkle
    /\ comp = NoComp

\* CompositionPolynomial::new(&trace, &constraints, domain)
CompositionNewStep ==
    /\ pc = "comp_ready"
    /\ \E domain_size \in CompDomainSizes :
          IF CompositionPanics(trace, constraints, domain_size)
          THEN /\ comp' = [comp EXCEPT !.domain_size = domain_size]
               /\ pc' = "comp_panic"
          ELSE /\ comp' = [comp EXCEPT
                              !.domain_size = domain_size,
                              !.polynomial = CompositionNew(trace, constraints, domain_size)]
               /\ pc' = "comp_built"
    /\ UNCHANGED <<trace, constraints, prover, proof, verifier, poly, fri, call, eval, merkle>>

\* composition.evaluations()
CompositionEvaluationsStep ==
    /\ pc = "comp_built"
    /\ comp' = [comp EXCEPT
                   !.evaluations = CompositionEvaluations(comp.polynomial, comp.domain_size)]
    /\ pc' = "comp_evaluated"
    /\ UNCHANGED <<trace, constraints, prover, proof, verifier, poly, fri, call, eval, merkle>>

NextComp == CompositionNewStep \/ CompositionEvaluationsStep

SpecComp == InitComp /\ [][NextComp]_vars

(***************************************************************************)
(* Properties.                                                             *)
(***************************************************************************)
\* every transition constraint returns zero on (T[i], T[i+1]), i in 0 .. H-2
TransitionsHold ==
    \A c \in 1 .. Len(constraints.transition_constraints) :
       \A i \in 0 .. (trace.height - 2) :
          EvalTransition(constraints.transition_constraints[c].name,
                         trace.trace[i + 1], trace.trace[i + 2]) = 0

\* every boundary constraint returns zero at its row
BoundariesHold ==
    \A b \in 1 .. Len(constraints.boundary_constraints) :
       EvalBoundary(constraints.boundary_constraints[b].name,
                    trace.trace[constraints.boundary_constraints[b].row + 1]) = 0

AllConstraintsHold == TransitionsHold /\ BoundariesHold

\* C1: completeness. When the trace satisfies every constraint, verify
\* returns true on the proof generate_proof returned, for all challenges and
\* all sampled indices.
C1_Completeness ==
    (pc = "verified" /\ AllConstraintsHold) => verifier.result = "true"

C1_Witness ==
    /\ pc = "verified"
    /\ AllConstraintsHold
    /\ verifier.result = "true"
    /\ trace.height = 4
    /\ Len(constraints.transition_constraints) = 1
    /\ Len(constraints.boundary_constraints) = 1
    /\ Len(proof.fri_challenges) = 1

\* C2: rejection. When some constraint evaluates to a non-zero value, verify
\* returns false on the proof, for every choice of sampled indices.
C2_Rejection ==
    (pc = "verified" /\ ~ AllConstraintsHold) => verifier.result = "false"

\* C3: the remainder of the division of C by Z_H is zero exactly when the
\* trace satisfies every constraint.
C3_RemainderIffSatisfied ==
    pc \in {"fri", "proved"} => (PolyIsZero(prover.rem) <=> AllConstraintsHold)

\* the vector the i-th fold of the FRI check starts from, i from 0
FriCurrent(pr, i) == IF i = 0 THEN pr.quotient_eval_domain ELSE pr.fri_layers[i + 1]

\* fri_layers[i+1] exists and equals fri_fold(cur_i, fri_challenges[i])
FriLayerOK(pr, i) ==
    /\ i + 2 <= Len(pr.fri_layers)
    /\ LET folded == FriFold(FriCurrent(pr, i), pr.fri_challenges[i + 1])
       IN  folded.kind = "Ok" /\ pr.fri_layers[i + 2] = folded.evals

FriReplayOK(pr) == \A i \in 0 .. (Len(pr.fri_challenges) - 1) : FriLayerOK(pr, i)

\* C4: verify returns true exactly when Q(x0) * (x0^H - 1) = C(x0) held at
\* each of the 80 sampled points and every recorded challenge folds the
\* current layer into the next recorded layer; when a spot check fails, or a
\* fold does not reproduce the next recorded layer, the result is false.
C4_VerifyIff ==
    pc = "verified" =>
       /\ verifier.result = "true" <=>
             (/\ verifier.i = VERIFIER_QUERIES
              /\ verifier.sampled_ok
              /\ FriReplayOK(proof))
       /\ ~ (verifier.sampled_ok /\ FriReplayOK(proof)) => verifier.result = "false"

\* C5: on every StarkProof value verify returns a boolean; it never aborts.
C5_VerifyNeverPanics ==
    pc = "verified" => verifier.result \in {"true", "false"}

\* C6: the proof generate_proof returns is well shaped.
C6_ProofShape ==
    proof.kind = "Proof" =>
       LET m == 2 * trace.height IN
       /\ Len(proof.fri_layers) >= 1
       /\ proof.quotient_eval_domain = proof.fri_layers[1]
       /\ Len(proof.quotient_eval_domain) = m
       /\ \A k \in 0 .. (Len(proof.fri_layers) - 1) :
             Len(proof.fri_layers[k + 1]) * (2 ^ k) = m
       /\ Len(proof.fri_challenges) = Len(proof.fri_layers) - 1

C6_Witness ==
    /\ proof.kind = "Proof"
    /\ trace.height = 8
    /\ Len(proof.fri_layers) = 3
    /\ Len(proof.fri_challenges) = 2

\* the state of the FRI loop when generate_proof leaves it
FriLoopExit ==
    LET layers == prover.fri_layers
        n == Len(layers)
    IN  /\ n >= 1
        /\ layers[1] = EvaluateOverDomain(prover.quotient_poly, 2 * trace.height)
        /\ Len(layers[n]) <= FriMinLen
        /\ \A k \in 1 .. (n - 1) : Len(layers[k]) > FriMinLen
        /\ Len(prover.fri_challenges) = n - 1
        /\ \A k \in 1 .. (n - 1) :
              LET folded == FriFold(layers[k], prover.fri_challenges[k])
              IN  folded.kind = "Ok" /\ layers[k + 1] = folded.evals

\* C7: the FRI loop of the prover terminates, and on exit the last layer has
\* length <= 4, every earlier layer has length > 4, all layers from the
\* original on are recorded, and layer k+1 is the fold of layer k with
\* challenge k.
C7_FriLoopTerminates ==
    /\ [](pc = "proved" => FriLoopExit)
    /\ (pc = "fri") ~> (pc = "proved")

C7_Witness ==
    /\ pc = "proved"
    /\ trace.height = 8
    /\ Len(prover.fri_layers) = 3
    /\ prover.fri_challenges = <<0, 1>>

\* C8: for every P and every non-zero D, divide returns (Q, R) with
\* Q * D + R = P and degree(R) < degree(D).
C8_DivisionIdentity ==
    (pc = "poly_divided" /\ ~ PolyIsZero(poly.divisor)) =>
       /\ poly.out.kind = "Some"
       /\ PolyAdd(PolyMultiply(poly.out.quotient, poly.divisor), poly.out.remainder) = poly.p
       /\ Degree(poly.out.remainder) < Degree(poly.divisor)

\* C9: divide returns None for every dividend when the divisor is the zero
\* polynomial, and does not return None when the divisor built by
\* Polynomial::new is non-zero.
C9_DivideByZero ==
    pc = "poly_divided" =>
       (poly.out.kind = "None" <=> PolyIsZero(poly.raw2))

C9_Witness ==
    /\ pc = "poly_divided"
    /\ poly.raw2 = <<0, 0>>
    /\ poly.p # <<>>
    /\ poly.out.kind = "None"

\* C10: when degree(dividend) < degree(divisor), divide returns the zero
\* polynomial as quotient and the dividend, unchanged, as remainder.
C10_SmallerDividend ==
    (pc = "poly_divided" /\ Degree(poly.p) < Degree(poly.divisor)) =>
       /\ poly.out.kind = "Some"
       /\ poly.out.quotient = <<>>
       /\ poly.out.remainder = poly.p

C10_Witness ==
    /\ pc = "poly_divided"
    /\ Degree(poly.p) < Degree(poly.divisor)
    /\ Len(poly.p) = 2
    /\ poly.out.kind = "Some"
    /\ poly.out.remainder = poly.p

\* the coefficient list is empty or ends in a non-zero element
NormalForm(p) == Len(p) = 0 \/ p[Len(p)] # 0

\* coefficient of x^k, k from 0
Coefficient(p, k) == IF k + 1 <= Len(p) THEN p[k + 1] ELSE 0

\* C11: every polynomial returned by new, zero, add, multiply, divide and
\* from_dense_poly has no trailing zero coefficient; new(coeffs ++ [0,0])
\* equals new(coeffs); the sum is the stripped coefficient-wise sum over the
\* longer length; a product with the zero polynomial is the zero polynomial.
C11_NormalForm ==
    /\ pc # "poly_raw" =>
          /\ NormalForm(poly.p) /\ NormalForm(poly.divisor)
          /\ PolyNew(poly.raw1 \o <<0, 0>>) = poly.p
    /\ (pc = "poly_divided" /\ poly.out.kind = "Some") =>
          NormalForm(poly.out.quotient) /\ NormalForm(poly.out.remainder)
    /\ pc \in {"poly_added", "poly_multiplied", "poly_zero", "poly_from_dense"} =>
          NormalForm(poly.result)
    /\ pc = "poly_zero" => poly.result = <<>>
    /\ pc = "poly_added" =>
          /\ Len(poly.result) <= (IF Len(poly.p) >= Len(poly.divisor)
                                  THEN Len(poly.p) ELSE Len(poly.divisor))
          /\ \A k \in 0 .. MaxCoeffs + 1 :
                Coefficient(poly.result, k) =
                   FAdd(Coefficient(poly.p, k), Coefficient(poly.divisor, k))
    /\ (pc = "poly_multiplied" /\ (poly.p = <<>> \/ poly.divisor = <<>>)) =>
          poly.result = <<>>

C11_Witness ==
    /\ pc = "poly_added"
    /\ Len(poly.p) = 3
    /\ Len(poly.divisor) = 3
    /\ Len(poly.result) = 1

\* the field element 1/2
Half == CHOOSE h \in Fr : FMul(2, h) = 1

\* C12: for an even-length vector v of length n and a challenge beta,
\* fri_fold returns a vector of length n/2 whose i-th entry is
\* (v[i] + v[i+n/2]) * 1/2 + (v[i] - v[i+n/2]) * 1/2 * beta.
C12_FoldFormula ==
    (pc = "fri_folded" /\ Len(fri.evals) % 2 = 0) =>
       LET v == fri.evals
           n == Len(v)
       IN  /\ fri.out.kind = "Ok"
           /\ Len(fri.out.evals) = n \div 2
           /\ \A i \in 0 .. (n \div 2 - 1) :
                 fri.out.evals[i + 1] =
                    FAdd(FMul(FAdd(v[i + 1], v[i + 1 + n \div 2]), Half),
                         FMul(FMul(FSub(v[i + 1], v[i + 1 + n \div 2]), Half), fri.beta))

C12_Witness ==
    /\ pc = "fri_folded"
    /\ fri.evals = <<0, 1, 1, 1>>
    /\ fri.beta = 2
    /\ fri.out.kind = "Ok"
    /\ fri.out.evals = <<FSub(Half, 1), 1>>

\* C13: fri_fold aborts exactly when the length of its input is odd; for
\* every even length, 0 included, it returns a vector.
C13_OddLength ==
    pc = "fri_folded" =>
       /\ fri.out.kind = "Panic" <=> Len(fri.evals) % 2 = 1
       /\ fri.out.kind = "Ok" <=> Len(fri.evals) % 2 = 0

C13_Witness ==
    /\ pc = "fri_folded"
    /\ fri.evals = <<>>
    /\ fri.out.kind = "Ok"
    /\ fri.out.evals = <<>>

\* the polynomials P_e and P_o with P(x) = P_e(x^2) + x * P_o(x^2)
EvenPart(p) == PolyNew([k \in 1 .. ((Len(p) + 1) \div 2) |-> p[2 * k - 1]])
OddPart(p) == PolyNew([k \in 1 .. (Len(p) \div 2) |-> p[2 * k]])

\* C14: when v is the evaluation vector over the domain {w^i} of size n of
\* the polynomial P of degree < n, the folded vector has
\* v'[i] = P_e(y_i) + beta * P_o(y_i) with y_i = (w^i)^2 for every i < n/2,
\* and is the evaluation vector of a polynomial of degree at most
\* floor(deg P / 2).
C14_EvenOddDecomposition ==
    (pc = "fri_folded" /\ Len(fri.evals) \in {2, 4}) =>
       LET n == Len(fri.evals)
           P == Interpolate(fri.evals)
           y(i) == FMul(DomainElement(n, i), DomainElement(n, i))
       IN  /\ fri.out.kind = "Ok"
           /\ \A i \in 0 .. (n \div 2 - 1) :
                 fri.out.evals[i + 1] =
                    FAdd(Evaluate(EvenPart(P), y(i)),
                         FMul(fri.beta, Evaluate(OddPart(P), y(i))))
           /\ Degree(Interpolate(fri.out.evals)) <= Degree(P) \div 2

\* the step of an insert_column call as the claim describes it
InsertStep ==
    call'.op = "insert" =>
       LET column == call'.column
           fails == \/ Len(trace.trace) >= trace.height
                    \/ Cardinality(DOMAIN column) # trace.width
       IN  /\ fails => (call'.outcome = "panic" /\ trace' = trace)
           /\ ~ fails => /\ call'.outcome = "ok"
                         /\ trace'.trace = Append(trace.trace, column)
                         /\ trace'.height = trace.height
                         /\ trace'.width = trace.width

\* at most H rows are stored and every stored row has W keys
TraceShape ==
    /\ Len(trace.trace) <= trace.height
    /\ \A i \in 1 .. Len(trace.trace) : Cardinality(DOMAIN trace.trace[i]) = trace.width

\* C15: insert_column fails when H rows are stored or the row has not W
\* keys, leaving the stored rows unchanged; otherwise it appends the row at
\* the end. So at most H rows are stored, every stored row has W keys, and
\* the rows are kept in insertion order.
C15_InsertColumn == [][InsertStep]_vars /\ []TraceShape

C15_Witness ==
    /\ pc = "trace"
    /\ trace.height = 2
    /\ trace.width = 2
    /\ Len(trace.trace) = 2
    /\ trace.trace[1] # trace.trace[2]
    /\ call.op = "insert"
    /\ call.outcome = "panic"
    /\ Cardinality(DOMAIN call.column) = 2

\* C16: get_column(i) fails if i >= H, and whenever it is called before H
\* rows have been inserted; once H rows are inserted, get_column(i) for
\* i < H returns the i-th inserted row.
C16_GetColumn ==
    (pc = "trace" /\ call.op = "get") =>
       /\ call.outcome = "panic" <=>
             (call.index >= trace.height \/ Len(trace.trace) < trace.height)
       /\ call.outcome = "ok" => call.value = trace.trace[call.index + 1]

\* C17: all stored rows contain the same set of variable names.
C17_SameKeys ==
    pc = "trace" =>
       \A i, j \in 1 .. Len(trace.trace) : DOMAIN trace.trace[i] = DOMAIN trace.trace[j]

\* C18: evaluate returns a vector of length (H-1)*nT + nB: for each
\* transition constraint in declaration order its H-1 values for rows
\* 0 .. H-2 (the k-th block of H-1 entries is the k-th constraint's), then
\* one value per boundary constraint in declaration order.
C18_EvaluateLayout ==
    (pc = "cs_done" /\ eval.op = "evaluate") =>
       LET H == trace.height
           nT == Len(constraints.transition_constraints)
           nB == Len(constraints.boundary_constraints)
           e == eval.evaluations
       IN  /\ Len(e) = (H - 1) * nT + nB
           /\ \A k \in 1 .. nT : \A i \in 0 .. (H - 2) :
                 e[(k - 1) * (H - 1) + i + 1] =
                    EvalTransition(constraints.transition_constraints[k].name,
                                   trace.trace[i + 1], trace.trace[i + 2])
           /\ \A b \in 1 .. nB :
                 e[(H - 1) * nT + b] =
                    EvalBoundary(constraints.boundary_constraints[b].name,
                                 trace.trace[constraints.boundary_constraints[b].row + 1])

\* C19: is_satisfied is true exactly when every transition constraint
\* returns zero on (T[i], T[i+1]) for i in 0 .. H-2 and every boundary
\* constraint returns zero on its row; the pair (T[H-1], T[0]) plays no part.
C19_IsSatisfied ==
    (pc = "cs_done" /\ eval.op = "is_satisfied") =>
       (eval.satisfied <=> AllConstraintsHold)

C19_Witness ==
    /\ pc = "cs_done"
    /\ eval.op = "is_satisfied"
    /\ eval.satisfied
    /\ trace.height = 2
    /\ Len(constraints.transition_constraints) = 2
    /\ Len(constraints.boundary_constraints) = 1
    /\ EvalTransition(constraints.transition_constraints[1].name,
                      trace.trace[2], trace.trace[1]) # 0

\* C20: for a full trace of power-of-two height H, is_satisfied holds
\* exactly when every polynomial returned by interpolate_all_constraints
\* leaves a zero remainder when divided by Z_H = x^H - 1.
C20_SatisfiedIffDivisible ==
    (pc = "cs_done" /\ eval.op = "interpolate_all") =>
       (IsSatisfied(constraints, trace) <=>
          \A j \in 1 .. Len(eval.polys) :
             LET d == Divide(eval.polys[j], VanishingPolynomial(trace.height))
             IN  d.kind = "Some" /\ PolyIsZero(d.remainder))

C20_Witness ==
    /\ pc = "cs_done"
    /\ eval.op = "interpolate_all"
    /\ trace.height = 4
    /\ Len(eval.polys) = 3
    /\ ~ IsSatisfied(constraints, trace)
    /\ eval.polys[1] = <<>>
    /\ eval.polys[3] # <<>>

\* C21: for every non-empty list of leaves L and every index i < |L|, odd
\* sizes included, verify_merkle_proof(L[i], get_proof(i), root()) is true.
C21_MerkleRoundTrip ==
    (pc = "merkle_verified" /\ merkle.leaf = merkle.leaves[merkle.index + 1])
        => merkle.verified

C21_Witness ==
    /\ pc = "merkle_verified"
    /\ Len(merkle.leaves) = 5
    /\ merkle.index = 4
    /\ merkle.leaf = merkle.leaves[5]
    /\ merkle.leaves[5] # merkle.leaves[4]
    /\ merkle.verified

RECURSIVE IndexAtLevel(_, _)
\* the index of the ancestor, on level j (from 1), of the leaf at index
IndexAtLevel(index, j) == IF j <= 1 THEN index ELSE IndexAtLevel(index, j - 1) \div 2

\* the node next to node current_index (from 0) of a level: the right
\* neighbour of a left child, the left neighbour of a right child, and the
\* node itself where a left child has no right neighbour
SiblingOnRight(level, current_index) ==
    current_index % 2 = 0
SiblingNode(level, current_index) ==
    IF current_index % 2 = 1 THEN level[current_index]
    ELSE IF current_index + 2 <= Len(level) THEN level[current_index + 2]
    ELSE level[current_index + 1]

\* C22: on every level of a proof the position bit is true exactly when the
\* recorded sibling is on the right of the current node (the current node
\* is a left child, an unpaired last node being its own right sibling) and
\* false when the sibling is on the left.
C22_PositionConvention ==
    (pc = "merkle_proved" /\ merkle.proof.kind = "Some") =>
        \A j \in 1 .. Len(merkle.proof.position) :
            LET current_index == IndexAtLevel(merkle.index, j)
            IN  /\ merkle.proof.path[j] = SiblingNode(merkle.levels[j], current_index)
                /\ merkle.proof.position[j] = SiblingOnRight(merkle.levels[j], current_index)

\* C23: root() is Some exactly when the tree has at least one leaf; for a
\* tree of one leaf the root is that leaf, the proof for index 0 has an
\* empty path and an empty position list, and it verifies.
C23_Root ==
    /\ pc = "merkle_done" =>
          /\ merkle.root.kind = "Some" <=> Len(merkle.leaves) >= 1
          /\ Len(merkle.leaves) = 1 => merkle.root.hash = merkle.leaves[1]
    /\ (pc = "merkle_proved" /\ Len(merkle.leaves) = 1 /\ merkle.index = 0) =>
          merkle.proof = [kind |-> "Some", path |-> <<>>, position |-> <<>>]
    /\ (pc = "merkle_verified" /\ Len(merkle.leaves) = 1 /\ merkle.index = 0
            /\ merkle.leaf = merkle.leaves[1]) => merkle.verified

C23_Witness ==
    /\ pc = "merkle_done"
    /\ Len(merkle.leaves) = 1
    /\ merkle.root = [kind |-> "Some", hash |-> merkle.leaves[1]]

\* C24: get_proof(i) is None exactly when i is at least the number of
\* leaves (so always for the empty tree); otherwise the path and the
\* position list have the same length, the number of levels minus one.
C24_GetProofShape ==
    pc = "merkle_proved" =>
        /\ merkle.proof.kind = "None" <=> merkle.index >= Len(merkle.leaves)
        /\ merkle.proof.kind = "Some" =>
              /\ Len(merkle.proof.path) = Len(merkle.levels) - 1
              /\ Len(merkle.proof.position) = Len(merkle.levels) - 1

C24_Witness ==
    /\ pc = "merkle_proved"
    /\ Len(merkle.leaves) = 5
    /\ merkle.index = 4
    /\ merkle.proof.kind = "Some"
    /\ Len(merkle.proof.path) = 3

\* C26: levels[0] is the list of leaves; level j+1 has ceil(|level j| / 2)
\* nodes, the p-th being the digest of nodes 2p and 2p+1 of level j, or of
\* the unpaired last node X with itself; for a non-empty list of leaves the
\* last level has exactly one node.
C26_Levels ==
    pc # "merkle_input" =>
        /\ merkle.levels[1] = merkle.leaves
        /\ \A j \in 1 .. Len(merkle.levels) - 1 :
              LET below == merkle.levels[j]
                  above == merkle.levels[j + 1]
              IN  /\ Len(below) > 1
                  /\ 2 * Len(above) \in {Len(below), Len(below) + 1}
                  /\ \A p \in 0 .. Len(above) - 1 :
                        above[p + 1] = IF 2 * p + 1 < Len(below)
                                       THEN ShaDigest(below[2 * p + 1], below[2 * p + 2])
                                       ELSE ShaDigest(below[2 * p + 1], below[2 * p + 1])
        /\ Len(merkle.leaves) >= 1 => Len(merkle.levels[Len(merkle.levels)]) = 1

C26_Witness ==
    /\ pc = "merkle_built"
    /\ Len(merkle.leaves) = 5
    /\ Len(merkle.levels) = 4
    /\ Len(merkle.levels[2]) = 3
    /\ Len(merkle.levels[3]) = 2
    /\ merkle.levels[2][3] = ShaDigest(merkle.leaves[5], merkle.leaves[5])

\* C30: with sha_digest injective, verify_merkle_proof(x, get_proof(i),
\* root()) is true only if x is the leaf at index i, on trees with odd
\* levels too.
C30_MerkleBinding ==
    (pc = "merkle_verified" /\ merkle.verified)
        => merkle.leaf = merkle.leaves[merkle.index + 1]

C30_Witness ==
    /\ pc = "merkle_verified"
    /\ merkle.verified
    /\ Len(merkle.leaves) = 3
    /\ merkle.index = 2
    /\ merkle.leaf = ShaDigest(<<0>>, <<0>>)
    /\ merkle.leaves[1] = <<0>>
    /\ merkle.leaves[2] = <<0>>

\* C25: interpolate_all_constraints returns one polynomial per constraint,
\* the transition constraints first, in declaration order, then the boundary
\* constraints; each is the interpolation over the size-H domain of a vector
\* v of length H: for a transition constraint v[i] = f(T[i], T[i+1]) for
\* i in 0 .. H-2 and v[H-1] = 0 (the pair (T[H-1], T[0]) is never used); for
\* a boundary constraint at row r, v[r] = f(T[r]) and every other entry is 0.
C25_InterpolateAll ==
    (pc = "cs_done" /\ eval.op = "interpolate_all") =>
        LET H == trace.height
            nT == Len(constraints.transition_constraints)
            nB == Len(constraints.boundary_constraints)
        IN  /\ Len(eval.polys) = nT + nB
            /\ \A k \in 1 .. nT :
                  /\ Len(eval.polys[k]) <= H
                  /\ \A i \in 0 .. H - 1 :
                        Evaluate(eval.polys[k], DomainElement(H, i)) =
                            IF i <= H - 2
                            THEN EvalTransition(constraints.transition_constraints[k].name,
                                                GetColumn(trace, i), GetColumn(trace, i + 1))
                            ELSE 0
            /\ \A k \in 1 .. nB :
                  /\ Len(eval.polys[nT + k]) <= H
                  /\ \A i \in 0 .. H - 1 :
                        Evaluate(eval.polys[nT + k], DomainElement(H, i)) =
                            IF i = constraints.boundary_constraints[k].row
                            THEN EvalBoundary(constraints.boundary_constraints[k].name,
                                              GetColumn(trace, i))
                            ELSE 0

C25_Witness ==
    /\ pc = "cs_done"
    /\ eval.op = "interpolate_all"
    /\ trace.height = 4
    /\ Len(constraints.transition_constraints) = 2
    /\ constraints.transition_constraints[1].name = "increment"
    /\ constraints.transition_constraints[2].name = "zero_sequence"
    /\ Len(constraints.boundary_constraints) = 1
    /\ constraints.boundary_constraints[1].row = 3
    /\ EvalBoundary("starts_at_0", GetColumn(trace, 3)) # 0
    /\ EvalTransition("zero_sequence", GetColumn(trace, 3), GetColumn(trace, 0)) # 0
    /\ Len(eval.polys) = 3
    /\ eval.polys[3] # <<>>

\* C27: for every trace whose height H is a power of two and every
\* constraint system, the proof generate_proof returns has the zero
\* polynomial as quotient_poly, every entry of every FRI layer is zero, and
\* the remainder of the division is the combined constraint polynomial C.
C27_ZeroQuotient ==
    /\ pc \in {"fri", "proved"} =>
          /\ prover.quotient_poly = PolyZero
          /\ prover.rem = prover.combined_constraint
          /\ \A l \in 1 .. Len(prover.fri_layers) :
                \A k \in 1 .. Len(prover.fri_layers[l]) : prover.fri_layers[l][k] = 0
    /\ pc = "proved" =>
          /\ proof.quotient_poly = PolyZero
          /\ proof.combined_constraint = prover.rem
          /\ \A l \in 1 .. Len(proof.fri_layers) :
                \A k \in 1 .. Len(proof.fri_layers[l]) : proof.fri_layers[l][k] = 0
          /\ \A k \in 1 .. Len(proof.quotient_eval_domain) : proof.quotient_eval_domain[k] = 0

C27_Witness ==
    /\ pc = "proved"
    /\ trace.height = 4
    /\ ~ AllConstraintsHold
    /\ prover.rem # PolyZero
    /\ Degree(prover.rem) = 3
    /\ proof.quotient_poly = PolyZero
    /\ Len(proof.fri_layers) >= 2

=============================================================================
